---------------------------- MODULE Spec2Model ----------------------------
(***************************************************************************)
(* Error decoding, classification and table-name validation of             *)
(* azure.data.tables._error.                                               *)
(*                                                                         *)
(* Text is modelled as a sequence of symbols.  A symbol is one character   *)
(* ("a", ":", "\n") or, where the code only ever compares the text as a    *)
(* whole, one atomic word (a wire error code, a phrase of a service        *)
(* message).  String concatenation is \o, `x in y` is containment of a     *)
(* contiguous subsequence, and Python's None is the value None below,      *)
(* which no text of the wire equals.                                       *)
(***************************************************************************)
EXTENDS Integers, Sequences, FiniteSets

VARIABLES
    pc,             \* "called" | "returned" | "raised"
    op,             \* the function the call is to ("" before the call is made)
    response,       \* the HTTP response: [header, body] (storage_error.response)
    error_message,  \* argument error_message of _decode_error (storage_error.message)
    error_type,     \* argument error_type of _decode_error
    table_name,     \* argument table_name
    decoded_error,  \* the error object _decode_error returns / the validators read
    raised,         \* the exception that left the function ("" when none)
    handling,       \* sys.exc_info(): the exceptions being handled when the call is
                    \* made, the innermost first
    context,        \* the __context__ chain of the exception that left the function
    call_path,      \* "sync" | "async": the client the call is made from
    index_kwarg,    \* keyword argument index of TableTransactionError
    index,          \* attribute index of the TableTransactionError built
    invocations,    \* the local variables of each of the calls running concurrently
    heap,           \* the dict each additional_data refers to
    cont_token,     \* keyword argument continuation_token of begin_*
    polling,        \* keyword argument polling of begin_*
    status_code,    \* the status the service answers the initial request with
    requests,       \* the initial requests sent to the service
    raw_result,     \* local raw_result of begin_*
    poller          \* the poller begin_* returns

process_vars == <<handling, context, call_path>>

transaction_vars == <<index_kwarg, index>>

concurrent_vars == <<invocations, heap>>

lro_vars == <<cont_token, polling, status_code, requests, raw_result, poller>>

vars ==
    <<pc, op, response, error_message, error_type, table_name, decoded_error, raised,
      process_vars, transaction_vars, concurrent_vars,
      lro_vars>>

---------------------------------------------------------------------------
(* Bounds of the model *)

\* extra fields (besides code and message) an odata.error envelope may hold
MaxExtra == 1
\* elements of an XML error document, the root included
MaxElems == 3
\* table-name lengths are sampled within this distance of each length limit
Margin == 1

---------------------------------------------------------------------------
(* Text *)

None == <<"<None>">>

NoneText == <<"N", "o", "n", "e">>

\* "{}".format(value)
_str(value) == IF value = None THEN NoneText ELSE value

\* frag in text
Contains(text, frag) ==
    \E i \in 0..(Len(text) - Len(frag)) :
        SubSeq(text, i + 1, i + Len(frag)) = frag

LowerChar(c) ==
    CASE c = "C" -> "c"
      [] c = "D" -> "d"
      [] c = "E" -> "e"
      [] c = "M" -> "m"
      [] OTHER -> c

\* str.lower()
Lower(text) == [i \in 1..Len(text) |-> LowerChar(text[i])]

---------------------------------------------------------------------------
(* TableErrorCode *)

TableErrorCodeValues ==
    { "AccountAlreadyExists", "AccountBeingCreated", "AccountIsDisabled",
      "AuthenticationFailed", "AuthorizationFailure",
      "NoAuthenticationInformation", "ConditionHeadersNotSupported",
      "ConditionNotMet", "EmptyMetadataKey", "InsufficientAccountPermissions",
      "InternalError", "InvalidAuthenticationInfo", "InvalidHeaderValue",
      "InvalidHttpVerb", "InvalidInput", "InvalidMd5", "InvalidMetadata",
      "InvalidQueryParameterValue", "InvalidRange", "InvalidResourceName",
      "InvalidUri", "InvalidXmlDocument", "InvalidXmlNodeValue", "Md5Mismatch",
      "MetadataTooLarge", "MissingContentLengthHeader",
      "MissingRequiredQueryParameter", "MissingRequiredHeader",
      "MissingRequiredXmlNode", "MultipleConditionHeadersNotSupported",
      "OperationTimedOut", "OutOfRangeInput", "OutOfRangeQueryParameterValue",
      "RequestBodyTooLarge", "ResourceTypeMismatch", "RequestUrlFailedToParse",
      "ResourceAlreadyExists", "ResourceNotFound", "ServerBusy",
      "UnsupportedHeader", "UnsupportedXmlNode", "UnsupportedQueryParameter",
      "UnsupportedHttpVerb",
      "DuplicatePropertiesSpecified", "EntityNotFound", "EntityAlreadyExists",
      "EntityTooLarge", "HostInformationNotPresent", "InvalidDuplicateRow",
      "InvalidValueType", "JsonFormatNotSupported", "MethodNotAllowed",
      "NotImplemented", "PropertiesNeedValue", "PropertyNameInvalid",
      "PropertyNameTooLong", "PropertyValueTooLarge", "TableAlreadyExists",
      "TableBeingDeleted", "TableNotFound", "TooManyProperties",
      "UpdateConditionNotSatisfied", "XMethodIncorrectCount",
      "XMethodIncorrectValue", "XMethodNotUsingPost" }

\* TableErrorCode(error_code) succeeds (does not raise ValueError)
IsTableErrorCode(error_code) ==
    /\ Len(error_code) = 1
    /\ error_code[1] \in TableErrorCodeValues

\* a faulty variant of ErrorTypeOfCode: EntityNotFound left out of the not-found list
ErrorTypeOfCodeNoEntity(error_code) ==
    IF error_code \in {<<"ConditionNotMet">>, <<"UpdateConditionNotSatisfied">>}
    THEN "ResourceModifiedError"
    ELSE IF error_code \in {<<"InvalidAuthenticationInfo">>, <<"AuthenticationFailed">>}
    THEN "ClientAuthenticationError"
    ELSE IF error_code \in {<<"ResourceNotFound">>, <<"TableNotFound">>}
    THEN "ResourceNotFoundError"
    ELSE IF error_code \in {<<"ResourceAlreadyExists">>, <<"TableAlreadyExists">>,
                            <<"AccountAlreadyExists">>, <<"EntityAlreadyExists">>}
    THEN "ResourceExistsError"
    ELSE "HttpResponseError"

\* the branch of _decode_error an error_code that is a TableErrorCode takes
ErrorTypeOfCode(error_code) ==
    IF error_code \in {<<"ConditionNotMet">>, <<"UpdateConditionNotSatisfied">>}
    THEN "ResourceModifiedError"
    ELSE IF error_code \in {<<"InvalidAuthenticationInfo">>, <<"AuthenticationFailed">>}
    THEN "ClientAuthenticationError"
    ELSE IF error_code \in {<<"ResourceNotFound">>, <<"TableNotFound">>, <<"EntityNotFound">>}
    THEN "ResourceNotFoundError"
    ELSE IF error_code \in {<<"ResourceAlreadyExists">>, <<"TableAlreadyExists">>,
                            <<"AccountAlreadyExists">>, <<"EntityAlreadyExists">>}
    THEN "ResourceExistsError"
    ELSE "HttpResponseError"


---------------------------------------------------------------------------
(* _decode_error *)

\* the value of a "message" field that holds no "value" key
MissingValue == <<"<no value>">>

\* error_type=None
NoErrorType == ""

NoError ==
    [type |-> "", message |-> None, error_code |-> None,
     is_member |-> FALSE, additional_info |-> <<>>]

\* additional_data[key] = value, on a dict kept as the sequence of its items
\* in insertion order: a key already present keeps its place
DictSet(dict, key, value) ==
    IF \E i \in 1..Len(dict) : dict[i].k = key
    THEN [i \in 1..Len(dict) |->
              IF dict[i].k = key THEN [k |-> key, v |-> value] ELSE dict[i]]
    ELSE Append(dict, [k |-> key, v |-> value])

\* for info in error_body.get("odata.error", {}): ...
RECURSIVE JsonLoop(_, _, _)
JsonLoop(fields, i, st) ==
    IF i > Len(fields) \/ st.exc # ""
    THEN st
    ELSE LET info == fields[i] IN
         IF info.name = <<"code">>
         THEN JsonLoop(fields, i + 1, [st EXCEPT !.code = info.value])
         ELSE IF info.name = <<"message">>
         THEN IF info.value = MissingValue
              THEN [st EXCEPT !.exc = "KeyError"]
              ELSE JsonLoop(fields, i + 1, [st EXCEPT !.msg = info.value])
         \* info is a str: info.tag raises
         ELSE [st EXCEPT !.exc = "AttributeError"]

\* info.tag.lower().find(word) != -1
TagHas(tag, word) == Contains(Lower(tag), word)

\* a faulty variant of XmlLoop: only the direct children of the root are visited
RECURSIVE XmlLoopChildren(_, _, _)
XmlLoopChildren(elems, i, st) ==
    IF i > Len(elems)
    THEN st
    ELSE LET info == elems[i] IN
         IF info.depth # 1
         THEN XmlLoopChildren(elems, i + 1, st)
         ELSE IF TagHas(info.tag, <<"c", "o", "d", "e">>)
         THEN XmlLoopChildren(elems, i + 1, [st EXCEPT !.code = info.text])
         ELSE IF TagHas(info.tag, <<"m", "e", "s", "s", "a", "g", "e">>)
         THEN XmlLoopChildren(elems, i + 1, [st EXCEPT !.msg = info.text])
         ELSE XmlLoopChildren(elems, i + 1,
                      [st EXCEPT !.add = DictSet(st.add, info.tag, info.text)])

\* for info in error_body.iter(): ...
RECURSIVE XmlLoop(_, _, _)
XmlLoop(elems, i, st) ==
    IF i > Len(elems)
    THEN st
    ELSE LET info == elems[i] IN
         IF TagHas(info.tag, <<"c", "o", "d", "e">>)
         THEN XmlLoop(elems, i + 1, [st EXCEPT !.code = info.text])
         ELSE IF TagHas(info.tag, <<"m", "e", "s", "s", "a", "g", "e">>)
         THEN XmlLoop(elems, i + 1, [st EXCEPT !.msg = info.text])
         ELSE XmlLoop(elems, i + 1,
                      [st EXCEPT !.add = DictSet(st.add, info.tag, info.text)])

\* bool(error_body) of an Element: it has children.  body.items lists the
\* elements of the document in document order, the root first.
ElementTruthy(body) == Len(body.items) > 1

\* lines 133-155: the header seed and the walk of the body
DecodeBody(resp, message) ==
    LET st0 == [exc |-> "", code |-> resp.header, msg |-> message, add |-> <<>>]
        body == resp.body
    IN  CASE body.kind = "undecodable" -> st0
          [] body.kind = "absent" -> st0
          [] body.kind = "dict" ->
                IF body.flag THEN JsonLoop(body.items, 1, st0) ELSE st0
          [] body.kind = "xml" ->
                IF ElementTruthy(body) THEN XmlLoop(body.items, 1, st0) ELSE st0
          \* a JSON list, string or number, or a text body: no .iter()
          [] OTHER ->
                IF body.flag THEN [st0 EXCEPT !.exc = "AttributeError"] ELSE st0

\* a faulty variant of ClassifyErrorType: the ValueError handler leaves the last
\* candidate type in place
ClassifyErrorTypeUnknownExists(error_code, type) ==
    IF type # NoErrorType THEN type
    ELSE IF IsTableErrorCode(error_code) THEN ErrorTypeOfCode(error_code)
    ELSE "ResourceExistsError"

\* lines 157-189
ClassifyErrorType(error_code, type) ==
    IF type # NoErrorType THEN type
    ELSE IF IsTableErrorCode(error_code) THEN ErrorTypeOfCode(error_code)
    ELSE "HttpResponseError"

\* a faulty variant of FormatErrorCode: the enum member formatted by its repr
FormatErrorCodeRepr(error_code, is_member) ==
    IF is_member THEN <<"TableErrorCode.">> \o error_code ELSE _str(error_code)

\* lines 191-194: error_code.value, or the raw code when it has no .value
FormatErrorCode(error_code, is_member) ==
    IF is_member THEN error_code ELSE _str(error_code)

ErrorCodeMark == <<"\n", "E", "r", "r", "o", "r", "C", "o", "d", "e", ":">>

\* a faulty variant of InfoLines: the entries appended without the line break
RECURSIVE InfoLinesNoBreak(_)
InfoLinesNoBreak(dict) ==
    IF dict = <<>> THEN <<>>
    ELSE Head(dict).k \o <<":">> \o _str(Head(dict).v)
         \o InfoLinesNoBreak(Tail(dict))

\* lines 195-196
RECURSIVE InfoLines(_)
InfoLines(dict) ==
    IF dict = <<>> THEN <<>>
    ELSE <<"\n">> \o Head(dict).k \o <<":">> \o _str(Head(dict).v)
         \o InfoLines(Tail(dict))

_decode_error(resp, message, type) ==
    LET d == DecodeBody(resp, message)
        is_member == type = NoErrorType /\ IsTableErrorCode(d.code)
    IN  IF d.exc # "" THEN [exc |-> d.exc, error |-> NoError]
        \* None += str
        ELSE IF d.msg = None THEN [exc |-> "TypeError", error |-> NoError]
        ELSE [exc |-> "",
              error |-> [type |-> ClassifyErrorType(d.code, type),
                         message |-> d.msg \o ErrorCodeMark
                                       \o FormatErrorCode(d.code, is_member)
                                       \o InfoLines(d.add),
                         error_code |-> d.code,
                         is_member |-> is_member,
                         additional_info |-> d.add]]

DecodeError ==
    /\ pc = "called"
    /\ op = "_decode_error"
    /\ LET r == _decode_error(response, error_message, error_type)
       IN  /\ pc' = IF r.exc = "" THEN "returned" ELSE "raised"
           /\ raised' = r.exc
           /\ decoded_error' = r.error
    /\ UNCHANGED <<op, response, error_message, error_type, table_name, process_vars,
                   transaction_vars, concurrent_vars,
                   lro_vars>>

---------------------------------------------------------------------------
(* Responses *)

Absent == [kind |-> "absent", items |-> <<>>, flag |-> FALSE]
Undecodable == [kind |-> "undecodable", items |-> <<>>, flag |-> FALSE]
Other(truthy) == [kind |-> "other", items |-> <<>>, flag |-> truthy]
Dict(envelope, fields) == [kind |-> "dict", items |-> fields, flag |-> envelope]
Xml(elems) == [kind |-> "xml", items |-> elems, flag |-> TRUE]

Field(name, value) == [name |-> name, value |-> value]
Element(tag, text, depth) == [tag |-> tag, text |-> text, depth |-> depth]

CodeTag == <<"C", "o", "d", "e">>
MessageTag == <<"m", "e", "s", "s", "a", "g", "e">>
DetailTag == <<"D", "e", "t", "a", "i", "l">>
NsTag == <<"m", ":", "e", "r", "r", "o", "r">>

\* sequences over S of length 1..n
RECURSIVE SeqsUpTo(_, _)
SeqsUpTo(S, n) ==
    IF n = 0 THEN {}
    ELSE LET shorter == SeqsUpTo(S, n - 1)
         IN  {<<x>> : x \in S} \cup shorter
             \cup {Append(q, x) : q \in {p \in shorter : Len(p) = n - 1}, x \in S}

NoDuplicateNames(fields) ==
    \A i, j \in 1..Len(fields) : fields[i].name = fields[j].name => i = j

---------------------------------------------------------------------------
(* The calls of _decode_error the model makes *)

\* kwargs holds no index
NoKwarg == [given |-> FALSE, value |-> 0]

\* no TableTransactionError is built
NoTransaction ==
    /\ index_kwarg = NoKwarg
    /\ index = 0

\* a local that no statement has assigned
Unbound == "<unbound>"

NoPollerYet == [kind |-> "", polling_method |-> "", token |-> None, initial |-> Unbound]

\* no begin_* operation is called
NoPoller ==
    /\ cont_token = None
    /\ polling = "True"
    /\ status_code = 0
    /\ requests = <<>>
    /\ raw_result = Unbound
    /\ poller = NoPollerYet

\* a single call
NoInvocations ==
    /\ invocations = <<>>
    /\ heap = <<>>

\* a call made outside every except clause
NoHandler ==
    /\ handling = <<>>
    /\ context = <<>>
    /\ call_path = "sync"

Call(resp, message, type) ==
    [response |-> resp, error_message |-> message, error_type |-> type]

Response(header, body) == [header |-> header, body |-> body]

ErrorTypes == {NoErrorType, "ResourceNotFoundError", "TableTransactionError"}

\* every TableErrorCode value, an absent code and codes outside the enum
ClassifyCodes ==
    {<<c>> : c \in TableErrorCodeValues} \cup {None, <<"Weird">>, <<"tablenotfound">>}

\* bodies that carry the code c
CodeBodies(c) ==
    { Dict(TRUE, <<Field(<<"code">>, c), Field(<<"message">>, <<"boo">>)>>),
      Xml(<<Element(NsTag, None, 0), Element(CodeTag, c, 1)>>) }

ClassifyCalls ==
    {Call(Response(h, b), m, t) :
        h \in ClassifyCodes, b \in {Absent, Undecodable, Dict(FALSE, <<>>)},
        m \in {None, <<"m">>}, t \in ErrorTypes}
    \cup
    UNION {{Call(Response(h, b), m, t) :
               h \in {None, <<"Weird">>}, b \in CodeBodies(c),
               m \in {None, <<"m">>}, t \in ErrorTypes} : c \in ClassifyCodes}

ExtraNames == {<<"innererror">>, <<"details">>, <<"target">>}

JsonFields ==
    {Field(<<"code">>, v) : v \in {<<"EntityAlreadyExists">>, <<"Weird">>}}
    \cup {Field(<<"message">>, v) : v \in {<<"boo">>, MissingValue}}
    \cup {Field(n, <<"z">>) : n \in ExtraNames}

ExtraFields(fields) == {i \in 1..Len(fields) : fields[i].name \in ExtraNames}

\* the odata.error envelopes: JSON objects, so no name twice
JsonEnvelopes ==
    {<<>>} \cup
    {fs \in SeqsUpTo(JsonFields, 2 + MaxExtra) :
        NoDuplicateNames(fs) /\ Cardinality(ExtraFields(fs)) <= MaxExtra}

JsonBodies == {Dict(TRUE, fs) : fs \in JsonEnvelopes} \cup {Dict(FALSE, <<>>)}

XmlTags == {CodeTag, MessageTag, DetailTag, NsTag}
XmlTexts == {None, <<"v">>, <<"\n">>}

\* the depths of the n elements of a document, in document order: the root
\* at depth 0, every later element at most one level below the one before
RECURSIVE DepthShapes(_)
DepthShapes(n) ==
    IF n = 1 THEN {<<0>>}
    ELSE UNION {{Append(d, k) : k \in 1..(d[n - 1] + 1)} : d \in DepthShapes(n - 1)}

XmlDocument(shape, tags, texts) ==
    [i \in 1..Len(shape) |-> Element(tags[i], texts[i], shape[i])]

\* a message that already holds an ErrorCode line
MarkedMessage == <<"m">> \o ErrorCodeMark \o <<"Weird">>

DecodeCalls ==
    {Call(Response(h, b), m, t) :
        h \in {None, <<"TableNotFound">>, <<"Weird">>},
        b \in JsonBodies \cup {Absent, Undecodable, Other(TRUE), Other(FALSE)},
        m \in {None, <<"m">>, MarkedMessage},
        t \in {NoErrorType, "TableTransactionError"}}

InitCall(c) ==
    /\ pc = "called"
    /\ op = "_decode_error"
    /\ response = c.response
    /\ error_message = c.error_message
    /\ error_type = c.error_type
    /\ table_name = None
    /\ decoded_error = NoError
    /\ raised = ""
    /\ NoHandler
    /\ NoTransaction
    /\ NoInvocations
    /\ NoPoller

InitClassify == \E c \in ClassifyCalls : InitCall(c)

\* the calls of DecodeCalls, and calls on every XML document of at most
\* MaxElems elements
InitDecode ==
    \/ \E c \in DecodeCalls : InitCall(c)
    \/ \E n \in 1..MaxElems :
         \E shape \in DepthShapes(n), tags \in [1..n -> XmlTags],
            texts \in [1..n -> XmlTexts], m \in {None, <<"m">>} :
            InitCall(Call(Response(<<"TableNotFound">>,
                                   Xml(XmlDocument(shape, tags, texts))),
                          m, NoErrorType))

NextDecode == DecodeError

\* _decode_error on every code of the enumeration and on codes outside it
SpecClassify == InitClassify /\ [][NextDecode]_vars

\* _decode_error on every shape of response
SpecDecode == InitDecode /\ [][NextDecode]_vars

---------------------------------------------------------------------------
(* Table names *)

\* the characters table names are drawn from: letters, a digit, and
\* characters outside [a-zA-Z0-9]
Letters == {"a", "Z"}
Digits == {"7"}
NameChars == Letters \cup Digits \cup {"_", " ", "/", "\n"}

\* {2,62} of _STORAGE_VALID_TABLE
StorageMinTail == 2
StorageMaxTail == 62
\* {0,253} of _COSMOS_VALID_TABLE
CosmosMaxHead == 253

\* [/\\#?] of _COSMOS_VALID_TABLE
CosmosForbidden == {"/", "\\", "#", "?"}

\* where a pattern's $ holds in name: at its end, and before a line break
\* that ends it
DollarPlaces(name) ==
    {Len(name)} \cup
    (IF Len(name) > 0 /\ name[Len(name)] = "\n" THEN {Len(name) - 1} ELSE {})

\* _STORAGE_VALID_TABLE.match(name) is not None
\*   ^[a-zA-Z]{1}[a-zA-Z0-9]{2,62}$
_STORAGE_VALID_TABLE(name) ==
    \E n \in DollarPlaces(name) :
        /\ n >= 1
        /\ name[1] \in Letters
        /\ n - 1 >= StorageMinTail
        /\ n - 1 <= StorageMaxTail
        /\ \A i \in 2..n : name[i] \in Letters \cup Digits

\* _COSMOS_VALID_TABLE.match(name) is not None
\*   ^[^/\\#?]{0,253}[^ /\\#?]{1}$
_COSMOS_VALID_TABLE(name) ==
    \E n \in DollarPlaces(name) :
        /\ n >= 1
        /\ n - 1 <= CosmosMaxHead
        /\ \A i \in 1..(n - 1) : name[i] \notin CosmosForbidden
        /\ name[n] \notin CosmosForbidden \cup {" "}

StorageNameError ==
    "ValueError: Storage table names must be alphanumeric, cannot begin with a number, and must be between 3-63 characters long."

CosmosNameError ==
    "ValueError: Cosmos table names must contain from 1-255 characters, and they cannot contain /, \\, #, ?, or a trailing space."

\* the exception the call raises, "" when it returns
_validate_storage_tablename(name) ==
    IF ~_STORAGE_VALID_TABLE(name) THEN StorageNameError ELSE ""

\* a faulty variant of _validate_cosmos_tablename: the test of the match
\* inverted
_validate_cosmos_tablenameInverted(name) ==
    IF _COSMOS_VALID_TABLE(name) THEN CosmosNameError ELSE ""

_validate_cosmos_tablename(name) ==
    IF ~_COSMOS_VALID_TABLE(name) THEN CosmosNameError ELSE ""

\* the literals _validate_tablename_error looks for; a phrase the code only
\* ever reads as part of its literal is one symbol
InvalidCharacters == <<"The ", "specified resource name contains invalid characters">>
InvalidCharactersTypo == <<"The ", "specifed resource name contains invalid characters">>
LengthNotPermissible ==
    <<"The ", "specified resource name length is not within the permissible limits">>
PresentedInvalidCharacter == <<"The ", "resource name presented contains invalid character">>
CantEndWithSpace == <<"The ", "resource name can't end with space">>
InputNameInvalid == <<"The ", "input name is invalid", ".">>
RequestUrlInvalid == <<"Request url is invalid", ".">>
InputValuesInvalid == <<"One of the input values is invalid", ".">>
TableNameInvalidCharacter == <<"The ", "table name contains an invalid character">>
TableNameEndsWithSpace == <<"Table name cannot end with a space", ".">>
AuthorizationToken == <<"The ", "input authorization token can't serve the request", ".">>
MacSignature == <<"The ", "MAC signature found in the HTTP request">>

\* a faulty variant of _validate_tablename_error: the Unauthorized entry is
\* missing
_validate_tablename_errorNoUnauthorized(error, name) ==
    LET code == error.error_code
        message == error.message
    IN  IF code = <<"InvalidResourceName">> /\ Contains(message, InvalidCharacters)
        THEN _validate_storage_tablename(name)
        ELSE IF code = <<"InvalidResourceName">> /\ Contains(message, InvalidCharactersTypo)
        THEN _validate_storage_tablename(name)
        ELSE IF code = <<"OutOfRangeInput">> /\ Contains(message, LengthNotPermissible)
        THEN _validate_storage_tablename(name)
        ELSE IF /\ code = <<"InternalServerError">>
                /\ \/ Contains(message, PresentedInvalidCharacter)
                   \/ Contains(message, CantEndWithSpace)
        THEN _validate_cosmos_tablename(name)
        ELSE IF code = <<"BadRequest">> /\ Contains(message, InputNameInvalid)
        THEN _validate_cosmos_tablename(name)
        ELSE IF /\ code = <<"InvalidInput">>
                /\ \/ Contains(message, RequestUrlInvalid)
                   \/ Contains(message, InputValuesInvalid)
                   \/ Contains(message, TableNameInvalidCharacter)
                   \/ Contains(message, TableNameEndsWithSpace)
        THEN _validate_cosmos_tablename(name)
        ELSE ""

\* the exception the call raises, "" when it returns
_validate_tablename_error(error, name) ==
    LET code == error.error_code
        message == error.message
    IN  IF code = <<"InvalidResourceName">> /\ Contains(message, InvalidCharacters)
        THEN _validate_storage_tablename(name)
        ELSE IF code = <<"InvalidResourceName">> /\ Contains(message, InvalidCharactersTypo)
        THEN _validate_storage_tablename(name)
        ELSE IF code = <<"OutOfRangeInput">> /\ Contains(message, LengthNotPermissible)
        THEN _validate_storage_tablename(name)
        ELSE IF /\ code = <<"InternalServerError">>
                /\ \/ Contains(message, PresentedInvalidCharacter)
                   \/ Contains(message, CantEndWithSpace)
        THEN _validate_cosmos_tablename(name)
        ELSE IF code = <<"BadRequest">> /\ Contains(message, InputNameInvalid)
        THEN _validate_cosmos_tablename(name)
        ELSE IF /\ code = <<"InvalidInput">>
                /\ \/ Contains(message, RequestUrlInvalid)
                   \/ Contains(message, InputValuesInvalid)
                   \/ Contains(message, TableNameInvalidCharacter)
                   \/ Contains(message, TableNameEndsWithSpace)
        THEN _validate_cosmos_tablename(name)
        ELSE IF /\ code = <<"Unauthorized">>
                /\ \/ Contains(message, AuthorizationToken)
                   \/ Contains(message, MacSignature)
        THEN _validate_cosmos_tablename(name)
        ELSE ""

Finish(exc) ==
    /\ pc' = IF exc = "" THEN "returned" ELSE "raised"
    /\ raised' = exc
    /\ UNCHANGED <<op, response, error_message, error_type, table_name, decoded_error,
                   process_vars, transaction_vars, concurrent_vars,
                   lro_vars>>

ValidateTablenameError ==
    /\ pc = "called"
    /\ op = "_validate_tablename_error"
    /\ Finish(_validate_tablename_error(decoded_error, table_name))

ValidateStorageTablename ==
    /\ pc = "called"
    /\ op = "_validate_storage_tablename"
    /\ Finish(_validate_storage_tablename(table_name))

ValidateCosmosTablename ==
    /\ pc = "called"
    /\ op = "_validate_cosmos_tablename"
    /\ Finish(_validate_cosmos_tablename(table_name))

---------------------------------------------------------------------------
(* The calls of the validators the model makes *)

Fill(n) == [i \in 1..n |-> "a"]

\* fill counts that put the length of a name within Margin of each limit
FillCounts ==
    (0..Margin)
    \cup ((StorageMaxTail - Margin)..(StorageMaxTail + Margin))
    \cup ((CosmosMaxHead - Margin)..(CosmosMaxHead + Margin))

NameHeads == {<<>>} \cup {<<c>> : c \in NameChars}
NameTails == NameHeads \cup {<<c, "\n">> : c \in NameChars}

Names == {h \o Fill(n) \o t : h \in NameHeads, n \in FillCounts, t \in NameTails}

\* a few names on either side of both grammars
FewNames ==
    { <<"a", "a">>, <<"a", "7", "Z">>, <<"a", "_", "a">>, <<"7", "a", "a">>,
      <<"a", "a", " ">>, <<"a", "/", "a">>, <<"a", "a", "a", "\n">>,
      Fill(StorageMaxTail + 2), Fill(CosmosMaxHead + 1), Fill(CosmosMaxHead + 2),
      Fill(CosmosMaxHead + 1) \o <<"\n">> }

SignatureCodes ==
    { <<"InvalidResourceName">>, <<"OutOfRangeInput">>, <<"InternalServerError">>,
      <<"BadRequest">>, <<"InvalidInput">>, <<"Unauthorized">>, <<"TableNotFound">> }

\* messages of the services: each literal in a sentence of its own, and a
\* message that holds none
ServiceMessages ==
    {l \o <<"\n", "RequestId:1">> :
        l \in { InvalidCharacters \o <<".">>, InvalidCharactersTypo \o <<".">>,
                LengthNotPermissible \o <<".">>,
                PresentedInvalidCharacter \o <<"s", ".">>, CantEndWithSpace \o <<".">>,
                InputNameInvalid, RequestUrlInvalid, InputValuesInvalid,
                TableNameInvalidCharacter \o <<".">>, TableNameEndsWithSpace,
                AuthorizationToken, MacSignature \o <<" is not the same">>,
                <<"The ", "table specified does not exist", ".">> }}

\* the error _decode_error returns for a response with this code and a
\* storage error with this message
DecodedError(code, message) ==
    _decode_error(Response(code, Absent), message, NoErrorType).error

SignatureErrors ==
    {DecodedError(c, m) : c \in SignatureCodes, m \in ServiceMessages}

FewErrors ==
    { DecodedError(<<"InvalidResourceName">>,
                   InvalidCharacters \o <<".", "\n", "RequestId:1">>),
      DecodedError(<<"BadRequest">>, InputNameInvalid \o <<"\n", "RequestId:1">>),
      DecodedError(<<"TableNotFound">>,
                   <<"The ", "table specified does not exist", ".", "\n", "RequestId:1">>) }

InitTablename ==
    /\ pc = "called"
    /\ response = Response(None, Absent)
    /\ error_message = None
    /\ error_type = NoErrorType
    /\ raised = ""
    /\ NoHandler
    /\ NoTransaction
    /\ NoInvocations
    /\ NoPoller
    /\ \/ /\ op = "_validate_tablename_error"
          /\ \/ decoded_error \in SignatureErrors /\ table_name \in FewNames
             \/ decoded_error \in FewErrors /\ table_name \in Names
       \/ /\ op \in {"_validate_storage_tablename", "_validate_cosmos_tablename"}
          /\ decoded_error = NoError
          /\ table_name \in Names

NextTablename ==
    \/ ValidateTablenameError
    \/ ValidateStorageTablename
    \/ ValidateCosmosTablename

\* the name validators on names around every limit of both grammars
SpecTablename == InitTablename /\ [][NextTablename]_vars

---------------------------------------------------------------------------
(* The calls of _validate_tablename_error on messages of every wording *)

\* the phrases of the literals, each in a sentence that holds none of the
\* literals whole
PhraseMessages ==
    {<<"the ", l[i], "!">> :
        l \in { InvalidCharacters, InvalidCharactersTypo, LengthNotPermissible,
                PresentedInvalidCharacter, CantEndWithSpace, InputNameInvalid,
                TableNameInvalidCharacter, AuthorizationToken, MacSignature },
        i \in {2}}
    \cup
    {<<"the ", l[1], "!">> :
        l \in {RequestUrlInvalid, InputValuesInvalid, TableNameEndsWithSpace}}

\* names the storage grammar and the cosmos grammar tell apart
SignatureNames ==
    {<<"a", "7", "Z">>, <<"a", "_", "a">>, <<"a", "/", "a">>, <<"a", "a", " ">>}

InitSignature ==
    /\ pc = "called"
    /\ op = "_validate_tablename_error"
    /\ response = Response(None, Absent)
    /\ error_message = None
    /\ error_type = NoErrorType
    /\ raised = ""
    /\ NoHandler
    /\ NoTransaction
    /\ NoInvocations
    /\ NoPoller
    /\ decoded_error \in {DecodedError(c, m) :
                            c \in SignatureCodes, m \in ServiceMessages \cup PhraseMessages}
    /\ table_name \in SignatureNames

NextSignature == ValidateTablenameError

\* _validate_tablename_error on every code of the table and messages that
\* hold a literal, a phrase of one, or neither
SpecSignature == InitSignature /\ [][NextSignature]_vars

---------------------------------------------------------------------------
(* _process_table_error *)

\* storage_error.response is None
NoResponse == Response(None, [kind |-> "no response", items |-> <<>>, flag |-> FALSE])

\* a faulty variant of Truthy: the name is validated whenever the call is made
TruthyAlways(name) == TRUE

\* a faulty variant of Truthy: if table_name is not None:
TruthyNotNone(name) == name # None

\* if table_name:
Truthy(name) == name # None /\ name # <<>>

\* a faulty variant of _reraise_error: the error leaves with its context cleared
_reraise_errorDetached(error, exc_info) ==
    [raised |-> error.type, error |-> error, context |-> <<>>]

\* raise decoded_error.with_traceback(exc_traceback): the error leaves with
\* the exceptions being handled as its context
_reraise_error(error, exc_info) ==
    [raised |-> error.type, error |-> error, context |-> exc_info]

\* the handlers an exception of _decode_error passes on its way out: the
\* TypeError of line 194 is raised in the AttributeError handler of a code
\* that has no .value
DecodeContext(resp, message, exc) ==
    IF exc = "TypeError" /\ ~IsTableErrorCode(DecodeBody(resp, message).code)
    THEN <<"AttributeError">>
    ELSE <<>>

\* the exception that leaves the call, the decoded error, and the context
\* chain of the exception
_process_table_error(resp, message, name, exc_info) ==
    LET r == IF resp = NoResponse
             \* response.headers of None
             THEN [exc |-> "AttributeError", error |-> NoError]
             ELSE _decode_error(resp, message, NoErrorType)
    IN  IF r.exc = "AttributeError"
        THEN [raised |-> "storage_error", error |-> NoError,
              context |-> <<"AttributeError">>]
        ELSE IF r.exc # ""
        THEN [raised |-> r.exc, error |-> NoError,
              context |-> DecodeContext(resp, message, r.exc) \o exc_info]
        ELSE LET invalid == IF Truthy(name)
                            THEN _validate_tablename_error(r.error, name)
                            ELSE ""
             IN  IF invalid # ""
                 THEN [raised |-> invalid, error |-> r.error, context |-> exc_info]
                 ELSE _reraise_error(r.error, exc_info)

ProcessTableError ==
    /\ pc = "called"
    /\ op = "_process_table_error"
    /\ LET r == _process_table_error(response, error_message, table_name, handling)
       IN  /\ pc' = "raised"
           /\ raised' = r.raised
           /\ decoded_error' = r.error
           /\ context' = r.context
    /\ UNCHANGED <<op, response, error_message, error_type, table_name, handling,
                   call_path, transaction_vars, concurrent_vars,
                   lro_vars>>

\* the except clause of a client operation: the call is made while the
\* storage_error it is given is being handled
ExceptClause == <<"storage_error">>

\* responses that make _decode_error raise, and one with an XML body it decodes
ProcessBodies ==
    { Xml(<<Element(NsTag, None, 0), Element(MessageTag, None, 1)>>),
      Xml(<<Element(NsTag, None, 0), Element(CodeTag, <<"BadRequest">>, 1),
            Element(MessageTag, InputNameInvalid, 1)>>),
      Dict(TRUE, <<Field(<<"message">>, MissingValue)>>),
      Dict(TRUE, <<Field(<<"code">>, <<"Weird">>), Field(<<"target">>, <<"z">>)>>) }

InitProcess ==
    /\ pc = "called"
    /\ op = "_process_table_error"
    /\ \/ /\ response \in {Response(c, Absent) : c \in SignatureCodes}
          /\ error_message \in ServiceMessages
       \/ /\ response \in {NoResponse}
                          \cup {Response(c, b) : c \in {None, <<"TableNotFound">>},
                                                 b \in ProcessBodies}
          /\ error_message = <<"m">>
    /\ error_type = NoErrorType
    /\ table_name \in {None, <<>>} \cup FewNames
    /\ decoded_error = NoError
    /\ raised = ""
    /\ handling = ExceptClause
    /\ context = <<>>
    /\ call_path \in {"sync", "async"}
    /\ NoTransaction
    /\ NoInvocations
    /\ NoPoller

NextProcess == ProcessTableError

\* _process_table_error in the except clause of a client operation
SpecProcess == InitProcess /\ [][NextProcess]_vars

---------------------------------------------------------------------------
(* TableTransactionError *)

\* longest message text a TableTransactionError is built with
MaxMessageLen == 4

DecimalDigits == <<"0", "1", "2", "3", "4", "5", "6", "7", "8", "9">>

IsDigit(c) == \E i \in 1..10 : DecimalDigits[i] = c

DigitValue(c) == (CHOOSE i \in 1..10 : DecimalDigits[i] = c) - 1

\* text.strip(), of the white space the messages hold
RECURSIVE Strip(_)
Strip(text) ==
    IF text = <<>> THEN text
    ELSE IF Head(text) = " " THEN Strip(Tail(text))
    ELSE IF text[Len(text)] = " " THEN Strip(SubSeq(text, 1, Len(text) - 1))
    ELSE text

\* the value of digits that may hold single underscores between them
RECURSIVE DigitsValue(_, _)
DigitsValue(digits, acc) ==
    IF digits = <<>> THEN acc
    ELSE IF Head(digits) = "_" THEN DigitsValue(Tail(digits), acc)
    ELSE DigitsValue(Tail(digits), 10 * acc + DigitValue(Head(digits)))

\* int(text): white space around, a sign, then digits, single underscores
\* allowed between two digits; anything else is a ValueError
int(text) ==
    LET s == Strip(text)
        signed == s # <<>> /\ Head(s) \in {"+", "-"}
        body == IF signed THEN Tail(s) ELSE s
        valid == /\ body # <<>>
                 /\ IsDigit(body[1])
                 /\ IsDigit(body[Len(body)])
                 /\ \A i \in 1..Len(body) : IsDigit(body[i]) \/ body[i] = "_"
                 /\ \A i \in 1..(Len(body) - 1) : ~(body[i] = "_" /\ body[i + 1] = "_")
    IN  IF ~valid THEN [exc |-> "ValueError", value |-> 0]
        ELSE [exc |-> "",
              value |-> IF signed /\ Head(s) = "-"
                        THEN 0 - DigitsValue(body, 0)
                        ELSE DigitsValue(body, 0)]

\* message.split(':', 1)[0]
RECURSIVE FirstSection(_)
FirstSection(message) ==
    IF message = <<>> \/ Head(message) = ":" THEN <<>>
    ELSE <<Head(message)>> \o FirstSection(Tail(message))

\* a faulty variant of _extract_index: the message is parsed whole
_extract_indexNoSplit(message) ==
    LET parsed == int(message)
    IN  [exc |-> "", index |-> IF parsed.exc = "" THEN parsed.value ELSE 0]

\* a faulty variant of _extract_index: no except clause
_extract_indexNoExcept(message) ==
    LET parsed == int(FirstSection(message))
    IN  [exc |-> parsed.exc, index |-> parsed.value]

\* lines 238-243: the exception that leaves the call and the index returned
_extract_index(message) ==
    LET parsed == int(FirstSection(message))
    IN  [exc |-> "", index |-> IF parsed.exc = "" THEN parsed.value ELSE 0]

\* a faulty variant of kwargs_get: the value of the message wins
kwargs_getDefault(kwarg, default) == default

\* kwargs.get('index', default): the value the caller gave, None included
kwargs_get(kwarg, default) == IF kwarg.given THEN kwarg.value ELSE default

\* TableTransactionError(message=error_message, **kwargs)
TableTransactionErrorInit ==
    /\ pc = "called"
    /\ op = "TableTransactionError"
    /\ LET extracted == _extract_index(error_message)
       IN  /\ pc' = IF extracted.exc = "" THEN "returned" ELSE "raised"
           /\ raised' = extracted.exc
           /\ index' = IF extracted.exc # "" THEN index
                       ELSE kwargs_get(index_kwarg, extracted.index)
    /\ UNCHANGED <<op, response, error_message, error_type, table_name, decoded_error,
                   process_vars, index_kwarg, concurrent_vars,
                   lro_vars>>

\* the characters of the messages: digits, signs, white space, an
\* underscore, the colon and a letter
MessageChars == {"0", "3", "-", "+", " ", "_", ":", "x"}

InitTransaction ==
    /\ pc = "called"
    /\ op = "TableTransactionError"
    /\ response = NoResponse
    /\ \E n \in 0..MaxMessageLen : error_message \in [1..n -> MessageChars]
    /\ error_type = "TableTransactionError"
    /\ table_name = None
    /\ decoded_error = NoError
    /\ raised = ""
    /\ NoHandler
    /\ index_kwarg \in {NoKwarg} \cup {[given |-> TRUE, value |-> v] : v \in {0, 7}}
    /\ index = 0
    /\ NoInvocations
    /\ NoPoller

NextTransaction == TableTransactionErrorInit

\* TableTransactionError built with every short message
SpecTransaction == InitTransaction /\ [][NextTransaction]_vars

---------------------------------------------------------------------------
(* Calls running concurrently: each call is a thread of its own that takes *)
(* the statements of _decode_error, and of _process_table_error after it,  *)
(* one group at a time.                                                    *)

\* calls in flight at once
MaxInvocations == 2

Threads == 1..MaxInvocations

call_vars ==
    <<pc, op, response, error_message, error_type, table_name, decoded_error, raised>>

\* a faulty variant of Alloc: additional_data is one dict shared by every call
AllocShared(t) == 1

\* additional_data = {}: the dict of call t is a new dict
Alloc(t) == t

\* the call as it starts
Start(function, resp, message, name, exc_info) ==
    [op |-> function, resp |-> resp, message |-> message, name |-> name,
     exc_info |-> exc_info, pc |-> "seed", i |-> 1,
     code |-> None, msg |-> None, type |-> "", is_member |-> FALSE, text |-> <<>>,
     error |-> NoError, raised |-> "", context |-> <<>>]

\* an exception of _decode_error leaves the call: _process_table_error
\* answers an AttributeError by raising storage_error
Leave(inv, exc) ==
    IF inv.op = "_decode_error"
    THEN [inv EXCEPT !.pc = "raised", !.raised = exc]
    ELSE IF exc = "AttributeError"
    THEN [inv EXCEPT !.pc = "raised", !.raised = "storage_error",
                     !.context = <<"AttributeError">>]
    ELSE [inv EXCEPT !.pc = "raised", !.raised = exc,
                     !.context = DecodeContext(inv.resp, inv.message, exc)
                                    \o inv.exc_info]

\* the items the loop of lines 139-155 goes through
Walked(body) ==
    IF body.kind = "dict" /\ body.flag THEN body.items
    ELSE IF body.kind = "xml" /\ ElementTruthy(body) THEN body.items
    ELSE <<>>

\* lines 133-134
Seed(t) ==
    /\ op = "concurrent"
    /\ invocations[t].pc = "seed"
    /\ LET inv == invocations[t]
       IN  IF inv.resp = NoResponse
           THEN /\ invocations' = [invocations EXCEPT ![t] = Leave(inv, "AttributeError")]
                /\ heap' = heap
           ELSE /\ invocations' =
                      [invocations EXCEPT ![t] = [inv EXCEPT !.pc = "body",
                                                             !.code = inv.resp.header,
                                                             !.msg = inv.message]]
                /\ heap' = [heap EXCEPT ![Alloc(t)] = <<>>]
    /\ UNCHANGED <<call_vars, process_vars, transaction_vars, lro_vars>>

\* lines 135-155: one item of the body
Body(t) ==
    /\ op = "concurrent"
    /\ invocations[t].pc = "body"
    /\ LET inv == invocations[t]
           body == inv.resp.body
           st == [exc |-> "", code |-> inv.code, msg |-> inv.msg,
                  add |-> heap[Alloc(t)]]
           next == IF body.kind = "dict"
                   THEN JsonLoop(<<body.items[inv.i]>>, 1, st)
                   ELSE XmlLoop(<<body.items[inv.i]>>, 1, st)
       IN  IF body.kind \notin {"dict", "xml", "absent", "undecodable"} /\ body.flag
           THEN /\ invocations' = [invocations EXCEPT ![t] = Leave(inv, "AttributeError")]
                /\ heap' = heap
           ELSE IF inv.i > Len(Walked(body))
           THEN /\ invocations' = [invocations EXCEPT ![t] = [inv EXCEPT !.pc = "classify"]]
                /\ heap' = heap
           ELSE IF next.exc # ""
           THEN /\ invocations' = [invocations EXCEPT ![t] = Leave(inv, next.exc)]
                /\ heap' = heap
           ELSE /\ invocations' =
                      [invocations EXCEPT ![t] = [inv EXCEPT !.i = inv.i + 1,
                                                             !.code = next.code,
                                                             !.msg = next.msg]]
                /\ heap' = [heap EXCEPT ![Alloc(t)] = next.add]
    /\ UNCHANGED <<call_vars, process_vars, transaction_vars, lro_vars>>

\* lines 157-189
Classify(t) ==
    /\ op = "concurrent"
    /\ invocations[t].pc = "classify"
    /\ LET inv == invocations[t]
       IN  invocations' =
              [invocations EXCEPT ![t] =
                  [inv EXCEPT !.pc = "format",
                              !.type = ClassifyErrorType(inv.code, NoErrorType),
                              !.is_member = IsTableErrorCode(inv.code)]]
    /\ UNCHANGED <<heap, call_vars, process_vars, transaction_vars, lro_vars>>

\* lines 191-196
Format(t) ==
    /\ op = "concurrent"
    /\ invocations[t].pc = "format"
    /\ LET inv == invocations[t]
       IN  invocations' =
              [invocations EXCEPT ![t] =
                  IF inv.msg = None
                  THEN Leave(inv, "TypeError")
                  ELSE [inv EXCEPT !.pc = "build",
                                   !.text = inv.msg \o ErrorCodeMark
                                              \o FormatErrorCode(inv.code, inv.is_member)
                                              \o InfoLines(heap[Alloc(t)])]]
    /\ UNCHANGED <<heap, call_vars, process_vars, transaction_vars, lro_vars>>

\* lines 198-201
Build(t) ==
    /\ op = "concurrent"
    /\ invocations[t].pc = "build"
    /\ LET inv == invocations[t]
       IN  invocations' =
              [invocations EXCEPT ![t] =
                  [inv EXCEPT !.pc = IF inv.op = "_decode_error"
                                     THEN "returned" ELSE "validate",
                              !.error = [type |-> inv.type,
                                         message |-> inv.text,
                                         error_code |-> inv.code,
                                         is_member |-> inv.is_member,
                                         additional_info |-> heap[Alloc(t)]]]]
    /\ UNCHANGED <<heap, call_vars, process_vars, transaction_vars, lro_vars>>

\* lines 218-219
Validate(t) ==
    /\ op = "concurrent"
    /\ invocations[t].pc = "validate"
    /\ LET inv == invocations[t]
           invalid == IF Truthy(inv.name)
                      THEN _validate_tablename_error(inv.error, inv.name)
                      ELSE ""
       IN  invocations' =
              [invocations EXCEPT ![t] =
                  IF invalid # ""
                  THEN [inv EXCEPT !.pc = "raised", !.raised = invalid,
                                   !.context = inv.exc_info]
                  ELSE [inv EXCEPT !.pc = "reraise"]]
    /\ UNCHANGED <<heap, call_vars, process_vars, transaction_vars, lro_vars>>

\* line 220
Reraise(t) ==
    /\ op = "concurrent"
    /\ invocations[t].pc = "reraise"
    /\ LET inv == invocations[t]
           r == _reraise_error(inv.error, inv.exc_info)
       IN  invocations' =
              [invocations EXCEPT ![t] =
                  [inv EXCEPT !.pc = "raised", !.raised = r.raised,
                              !.context = r.context]]
    /\ UNCHANGED <<heap, call_vars, process_vars, transaction_vars, lro_vars>>

\* a document with entries for additional_data
DetailDocument ==
    Xml(<<Element(NsTag, None, 0), Element(CodeTag, <<"TableNotFound">>, 1),
          Element(MessageTag, <<"boo">>, 1), Element(DetailTag, <<"v">>, 1)>>)

ConcurrentCalls ==
    { Start("_decode_error", Response(None, DetailDocument), <<"m">>, None, <<>>),
      Start("_decode_error",
            Response(<<"Weird">>,
                     Dict(TRUE, <<Field(<<"code">>, <<"EntityAlreadyExists">>),
                                  Field(<<"message">>, <<"boo">>)>>)),
            None, None, <<>>),
      Start("_decode_error", Response(<<"TableNotFound">>, Absent), None, None, <<>>),
      Start("_process_table_error", Response(<<"BadRequest">>, Absent),
            InputNameInvalid, <<"a", "/", "a">>, ExceptClause),
      Start("_process_table_error", Response(<<"BadRequest">>, DetailDocument),
            InputNameInvalid, <<"a", "_", "a">>, ExceptClause),
      Start("_process_table_error", NoResponse, <<"m">>, None, ExceptClause) }

InitConcurrent ==
    /\ pc = "called"
    /\ op = "concurrent"
    /\ response = Response(None, Absent)
    /\ error_message = None
    /\ error_type = NoErrorType
    /\ table_name = None
    /\ decoded_error = NoError
    /\ raised = ""
    /\ NoHandler
    /\ NoTransaction
    /\ invocations \in [Threads -> ConcurrentCalls]
    /\ heap = [t \in Threads |-> <<>>]
    /\ NoPoller

NextConcurrent ==
    \E t \in Threads :
        \/ Seed(t)
        \/ Body(t)
        \/ Classify(t)
        \/ Format(t)
        \/ Build(t)
        \/ Validate(t)
        \/ Reraise(t)

\* calls of _decode_error and _process_table_error under every interleaving
SpecConcurrent == InitConcurrent /\ [][NextConcurrent]_vars

---------------------------------------------------------------------------
(* ServerTrustCertificatesOperations.begin_create_or_update, begin_delete *)

\* the statuses the initial call takes for a success
OkStatuses(operation) ==
    IF operation = "begin_create_or_update" THEN {200, 201, 202} ELSE {200, 202, 204}

\* map_error(...), then raise HttpResponseError(...)
ErrorOfStatus(status) ==
    CASE status = 401 -> "ClientAuthenticationError"
      [] status = 404 -> "ResourceNotFoundError"
      [] status = 409 -> "ResourceExistsError"
      [] OTHER -> "HttpResponseError"

\* if polling is True: ... elif polling is False: ... else: ...
PollingMethod(method) ==
    CASE method = "True" -> "AsyncARMPolling"
      [] method = "False" -> "AsyncNoPolling"
      [] OTHER -> method

\* the end of begin_*: the exception that leaves it ("" when it returns)
\* and the poller it returns
ReturnPoller(token, method, raw) ==
    IF Truthy(token)
    THEN [exc |-> "",
          poller |-> [kind |-> "from_continuation_token",
                      polling_method |-> PollingMethod(method),
                      token |-> token, initial |-> Unbound]]
    \* AsyncLROPoller(self._client, raw_result, ...) reads raw_result
    ELSE IF raw = Unbound
    THEN [exc |-> "UnboundLocalError", poller |-> NoPollerYet]
    ELSE [exc |-> "",
          poller |-> [kind |-> "AsyncLROPoller",
                      polling_method |-> PollingMethod(method),
                      token |-> None, initial |-> raw]]

\* begin_* up to the await of the initial call, or to its end when no
\* initial call is made
Begin(operation) ==
    /\ pc = "called"
    /\ op = operation
    /\ IF cont_token = None
       THEN /\ requests' = Append(requests, operation)
            /\ pc' = "awaiting"
            /\ UNCHANGED <<raised, poller>>
       ELSE LET r == ReturnPoller(cont_token, polling, raw_result)
            IN  /\ pc' = IF r.exc = "" THEN "returned" ELSE "raised"
                /\ raised' = r.exc
                /\ poller' = r.poller
                /\ UNCHANGED requests
    /\ UNCHANGED <<op, response, error_message, error_type, table_name, decoded_error,
                   process_vars, transaction_vars, concurrent_vars,
                   cont_token, polling, status_code, raw_result>>

BeginCreateOrUpdate == Begin("begin_create_or_update")

BeginDelete == Begin("begin_delete")

\* the service has answered the initial request: the rest of the initial
\* call and of begin_*
InitialResponse ==
    /\ pc = "awaiting"
    /\ IF status_code \notin OkStatuses(op)
       THEN /\ pc' = "raised"
            /\ raised' = ErrorOfStatus(status_code)
            /\ UNCHANGED <<raw_result, poller>>
       \* cls=lambda x,y,z: x
       ELSE LET r == ReturnPoller(cont_token, polling, "pipeline_response")
            IN  /\ raw_result' = "pipeline_response"
                /\ pc' = IF r.exc = "" THEN "returned" ELSE "raised"
                /\ raised' = r.exc
                /\ poller' = r.poller
    /\ UNCHANGED <<op, response, error_message, error_type, table_name, decoded_error,
                   process_vars, transaction_vars, concurrent_vars,
                   cont_token, polling, status_code, requests>>

\* statuses of the service on either side of both success lists
ServiceStatuses == {200, 201, 202, 204, 401, 404, 409, 500}

InitPoller ==
    /\ pc = "called"
    /\ op \in {"begin_create_or_update", "begin_delete"}
    /\ response = Response(None, Absent)
    /\ error_message = None
    /\ error_type = NoErrorType
    /\ table_name = None
    /\ decoded_error = NoError
    /\ raised = ""
    /\ NoHandler
    /\ NoTransaction
    /\ NoInvocations
    /\ cont_token \in {None, <<>>, <<"t", "o", "k">>}
    /\ polling \in {"True", "False", "MyPolling"}
    /\ status_code \in ServiceStatuses
    /\ requests = <<>>
    /\ raw_result = Unbound
    /\ poller = NoPollerYet

NextPoller ==
    \/ BeginCreateOrUpdate
    \/ BeginDelete
    \/ InitialResponse

\* the two long-running operations with every kind of continuation token
SpecPoller == InitPoller /\ [][NextPoller]_vars

---------------------------------------------------------------------------
(* Helpers of the properties *)

Returned == op = "_decode_error" /\ pc = "returned"

Last(q) == q[Len(q)]

StartsWith(text, prefix) ==
    Len(text) >= Len(prefix) /\ SubSeq(text, 1, Len(prefix)) = prefix

EndsWith(text, suffix) ==
    Len(text) >= Len(suffix)
    /\ SubSeq(text, Len(text) - Len(suffix) + 1, Len(text)) = suffix

\* the places where frag occurs in text
Occurrences(text, frag) ==
    {i \in 1..(Len(text) - Len(frag) + 1) :
        SubSeq(text, i, i + Len(frag) - 1) = frag}

\* the kind the documentation gives each wire code
DocumentedKind(code) ==
    CASE code \in {"ConditionNotMet", "UpdateConditionNotSatisfied"} ->
            "ResourceModifiedError"
      [] code \in {"InvalidAuthenticationInfo", "AuthenticationFailed"} ->
            "ClientAuthenticationError"
      [] code \in {"ResourceNotFound", "TableNotFound", "EntityNotFound"} ->
            "ResourceNotFoundError"
      [] code \in {"ResourceAlreadyExists", "TableAlreadyExists",
                   "AccountAlreadyExists", "EntityAlreadyExists"} ->
            "ResourceExistsError"
      [] OTHER -> "HttpResponseError"

HasField(fields, name) == \E i \in 1..Len(fields) : fields[i].name = name

FieldValue(fields, name) ==
    fields[CHOOSE i \in 1..Len(fields) : fields[i].name = name].value

\* the code the body of the response carries, the header's code when it
\* carries none
WireCode ==
    LET body == response.body
        codes == SelectSeq(body.items, LAMBDA e : TagHas(e.tag, <<"c", "o", "d", "e">>))
    IN  IF body.kind = "dict" /\ body.flag /\ HasField(body.items, <<"code">>)
        THEN FieldValue(body.items, <<"code">>)
        ELSE IF body.kind = "xml" /\ Len(body.items) > 1 /\ codes # <<>>
        THEN Last(codes).text
        ELSE response.header

---------------------------------------------------------------------------
(* C1: for every wire code of the TableErrorCode enumeration, an error     *)
(* _decode_error returns when called without an error_type is of the kind  *)
(* documented for the code: ResourceModifiedError, ClientAuthentication-   *)
(* Error, ResourceNotFoundError or ResourceExistsError for the listed      *)
(* codes, plain HttpResponseError for every other code of the enumeration. *)
C1_DocumentedKindOfEnumCode ==
    (Returned /\ error_type = NoErrorType /\ Len(WireCode) = 1
       /\ WireCode[1] \in TableErrorCodeValues)
    => decoded_error.type = DocumentedKind(WireCode[1])

\* a code of the body, EntityNotFound, has been classified as not-found
C1_Witness ==
    /\ Returned
    /\ error_type = NoErrorType
    /\ response.body.kind = "dict"
    /\ WireCode = <<"EntityNotFound">>
    /\ decoded_error.type = "ResourceNotFoundError"

(* C2, as stated: for every decoded code that is no member of the          *)
(* enumeration (an absent code included), the error _decode_error returns  *)
(* is a plain HttpResponseError whose error_code is the raw decoded value. *)
C2_UnknownCodeIsGeneric ==
    (Returned /\ ~IsTableErrorCode(WireCode))
    => /\ decoded_error.type = "HttpResponseError"
       /\ decoded_error.error_code = WireCode

(* C2, amended: the error is a plain HttpResponseError when the call gives *)
(* no error_type and is of the caller's error_type when it gives one; in   *)
(* both cases error_code is the raw decoded value.                         *)
C2_UnknownCodeKeepsRawCode ==
    (Returned /\ ~IsTableErrorCode(WireCode))
    => /\ decoded_error.type =
            IF error_type = NoErrorType THEN "HttpResponseError" ELSE error_type
       /\ decoded_error.error_code = WireCode

\* an absent code has come back as a plain HttpResponseError carrying None
C2_Witness ==
    /\ Returned
    /\ error_type = NoErrorType
    /\ WireCode = None
    /\ decoded_error.type = "HttpResponseError"
    /\ decoded_error.error_code = None

---------------------------------------------------------------------------
\* the shapes of response C3 lists: any header; a body that is absent,
\* unparseable, an XML tree, or a JSON object whose envelope (if any) holds
\* a code, a message with its value, and other fields
ListedShape ==
    LET body == response.body
    IN  \/ body.kind \in {"absent", "undecodable", "xml"}
        \/ /\ body.kind = "dict"
           /\ \A i \in 1..Len(body.items) : body.items[i].value # MissingValue

(* C3: _decode_error never raises: for every response of the listed shapes *)
(* and with or without an error_message, the call returns an error object. *)
C3_NeverRaises ==
    (op = "_decode_error" /\ ListedShape) => pc # "raised"

\* the envelope of the body holds both a code and a message.value
CodeAndMessageEnvelope ==
    LET body == response.body
    IN  /\ body.kind = "dict"
        /\ body.flag
        /\ HasField(body.items, <<"code">>)
        /\ HasField(body.items, <<"message">>)
        /\ FieldValue(body.items, <<"message">>) # MissingValue

\* one additional_info entry per field of the envelope besides code and
\* message, keyed by the field's name
ExpectedJsonInfo ==
    LET others == SelectSeq(response.body.items,
                            LAMBDA f : f.name \notin {<<"code">>, <<"message">>})
    IN  [i \in 1..Len(others) |-> [k |-> others[i].name, v |-> others[i].value]]

(* C4: for every JSON body with an odata.error envelope holding a code and *)
(* a message.value, _decode_error yields that code and that message text   *)
(* (before decoration) and one additional_info entry per other field of    *)
(* the envelope, keyed by the field's name.                                *)
C4_JsonEnvelopeDecoded ==
    (op = "_decode_error" /\ pc # "called" /\ CodeAndMessageEnvelope)
    => /\ pc = "returned"
       /\ decoded_error.error_code = FieldValue(response.body.items, <<"code">>)
       /\ StartsWith(decoded_error.message,
                     FieldValue(response.body.items, <<"message">>) \o ErrorCodeMark)
       /\ decoded_error.additional_info = ExpectedJsonInfo

---------------------------------------------------------------------------
IsCodeTag(e) == TagHas(e.tag, <<"c", "o", "d", "e">>)
IsMessageTag(e) == TagHas(e.tag, <<"m", "e", "s", "s", "a", "g", "e">>)

\* what the elements `visited` leave behind: the code of the last element
\* whose tag holds "code", the message of the last other element whose tag
\* holds "message", and the remaining elements
CodeAfter(visited) ==
    LET hits == SelectSeq(visited, IsCodeTag)
    IN  IF hits = <<>> THEN response.header ELSE Last(hits).text

MessageAfter(visited) ==
    LET hits == SelectSeq(visited, LAMBDA e : ~IsCodeTag(e) /\ IsMessageTag(e))
    IN  IF hits = <<>> THEN error_message ELSE Last(hits).text

Remaining(visited) ==
    SelectSeq(visited, LAMBDA e : ~IsCodeTag(e) /\ ~IsMessageTag(e))

DirectChildren == SelectSeq(response.body.items, LAMBDA e : e.depth = 1)

\* iter() of a document whose root has children: the root and every
\* descendant, in document order; a root without children is not walked
WalkedElements ==
    IF Len(response.body.items) > 1 THEN response.body.items ELSE <<>>

(* C5, as stated: for every XML body _decode_error visits the direct       *)
(* children of the document: a child whose tag holds "code" sets the code, *)
(* one whose tag holds "message" sets the message, and additional_info     *)
(* holds exactly one entry per remaining direct child, keyed by its tag,   *)
(* and no entry for any other element.                                     *)
C5_DirectChildrenOnly ==
    (Returned /\ response.body.kind = "xml")
    => LET rest == Remaining(DirectChildren)
       IN  /\ decoded_error.error_code = CodeAfter(DirectChildren)
           /\ StartsWith(decoded_error.message,
                         MessageAfter(DirectChildren) \o ErrorCodeMark)
           /\ Len(decoded_error.additional_info) = Len(rest)
           /\ \A i \in 1..Len(rest) :
                 decoded_error.additional_info[i].k = rest[i].tag

(* C5, amended: for every XML body whose root has a child, _decode_error   *)
(* visits every element of the document, the root and all its descendants, *)
(* in document order (a childless root is not visited): the last element   *)
(* whose tag holds "code" sets the code, the last other element whose tag  *)
(* holds "message" sets the message, and additional_info holds exactly one *)
(* entry per distinct tag of the remaining elements, with the text of the  *)
(* last element of that tag, in the order the tags first appear.           *)
C5_EveryElementVisited ==
    (Returned /\ response.body.kind = "xml")
    => LET rest == Remaining(WalkedElements)
           info == decoded_error.additional_info
       IN  /\ decoded_error.error_code = CodeAfter(WalkedElements)
           /\ StartsWith(decoded_error.message,
                         MessageAfter(WalkedElements) \o ErrorCodeMark)
           /\ \A i, j \in 1..Len(info) : info[i].k = info[j].k => i = j
           /\ {info[i].k : i \in 1..Len(info)} = {rest[i].tag : i \in 1..Len(rest)}
           /\ \A i \in 1..Len(info) :
                 LET same == SelectSeq(rest, LAMBDA e : e.tag = info[i].k)
                 IN  info[i].v = Last(same).text
           /\ \A i, j \in 1..Len(info) :
                 i < j =>
                   (CHOOSE a \in 1..Len(rest) :
                       /\ rest[a].tag = info[i].k
                       /\ \A b \in 1..(a - 1) : rest[b].tag # info[i].k)
                   < (CHOOSE a \in 1..Len(rest) :
                       /\ rest[a].tag = info[j].k
                       /\ \A b \in 1..(a - 1) : rest[b].tag # info[j].k)

\* a document whose root and grandchild each left an entry, beside the child
C5_Witness ==
    /\ Returned
    /\ response.body.kind = "xml"
    /\ Len(response.body.items) = 3
    /\ response.body.items[1].tag = NsTag
    /\ response.body.items[2].tag = CodeTag
    /\ response.body.items[3].tag = DetailTag
    /\ response.body.items[3].depth = 2
    /\ Len(decoded_error.additional_info) = 2
    /\ decoded_error.additional_info[1].k = NsTag
    /\ decoded_error.additional_info[2].k = DetailTag

---------------------------------------------------------------------------
\* the wire string of a code, as "{}".format gives it for a str or for None
WireString(code) == IF code = None THEN <<"N", "o", "n", "e">> ELSE code

\* "\n<key>:<value>" for the entries i.. of an additional_info
RECURSIVE EntryLines(_, _)
EntryLines(info, i) ==
    IF i > Len(info) THEN <<>>
    ELSE <<"\n">> \o info[i].k \o <<":">> \o WireString(info[i].v)
         \o EntryLines(info, i + 1)

(* C6: the message of every error _decode_error returns ends with the line *)
(* "ErrorCode:<code>", <code> being the wire string of the decoded code    *)
(* and not an enum representation, followed by exactly one                 *)
(* "<key>:<value>" line per additional_info entry, in the order the        *)
(* entries were decoded, and nothing after them.                           *)
C6_MessageEndsWithCodeAndInfo ==
    Returned
    => EndsWith(decoded_error.message,
                ErrorCodeMark \o WireString(decoded_error.error_code)
                    \o EntryLines(decoded_error.additional_info, 1))

\* an enum member and two entries have been appended to the message
C6_Witness ==
    /\ Returned
    /\ decoded_error.is_member
    /\ Len(decoded_error.additional_info) = 2
    /\ decoded_error.message =
          <<"m">> \o ErrorCodeMark \o <<"TableNotFound">>
          \o <<"\n">> \o NsTag \o <<":", "v">>
          \o <<"\n">> \o DetailTag \o <<":", "N", "o", "n", "e">>

---------------------------------------------------------------------------
(* Reading a decorated message back *)

\* the places of symbol c in text, in order
Places(text, c) == {i \in 1..Len(text) : text[i] = c}

Min(S) == CHOOSE x \in S : \A y \in S : x <= y

\* text cut at every "\n": the sequence of its lines
RECURSIVE Lines(_)
Lines(text) ==
    IF Places(text, "\n") = {} THEN <<text>>
    ELSE LET n == Min(Places(text, "\n"))
         IN  <<SubSeq(text, 1, n - 1)>> \o Lines(SubSeq(text, n + 1, Len(text)))

\* a "<key>:<value>" line cut at its first colon (no colon: no entry)
ParseEntry(line) ==
    IF Places(line, ":") = {} THEN [k |-> None, v |-> None]
    ELSE LET n == Min(Places(line, ":"))
         IN  [k |-> SubSeq(line, 1, n - 1), v |-> SubSeq(line, n + 1, Len(line))]

\* the message read from place `at` (the "\n" of "\nErrorCode:<code>") on:
\* an ErrorCode line, then key:value lines
ParseFrom(message, at) ==
    LET lines == Lines(SubSeq(message, at + 1, Len(message)))
        first == ParseEntry(lines[1])
    IN  [code |-> first.v,
         info |-> [i \in 1..(Len(lines) - 1) |-> ParseEntry(lines[i + 1])]]

CodeMarkOf(code) == ErrorCodeMark \o WireString(code)

RoundTrips ==
    LET at == Occurrences(decoded_error.message, CodeMarkOf(decoded_error.error_code))
    IN  /\ Cardinality(at) = 1
        /\ LET read == ParseFrom(decoded_error.message, Min(at))
           IN  /\ read.code = WireString(decoded_error.error_code)
               /\ read.info =
                     [i \in 1..Len(decoded_error.additional_info) |->
                        [k |-> decoded_error.additional_info[i].k,
                         v |-> WireString(decoded_error.additional_info[i].v)]]

(* C7, as stated: for every decoded (code, message, extra), the text       *)
(* "\nErrorCode:<code>" occurs exactly once in the message of the returned *)
(* error, and reading the message from there on as an ErrorCode line and   *)
(* key:value lines recovers the code and additional_info exactly (each as  *)
(* the string it was written as).                                          *)
C7_RoundTrip == Returned => RoundTrips

NoBreak(text) == Places(WireString(text), "\n") = {}

\* the decoded values are texts that the line format can carry
Readable ==
    /\ NoBreak(decoded_error.error_code)
    /\ \A i \in 1..Len(decoded_error.additional_info) :
          LET e == decoded_error.additional_info[i]
          IN  NoBreak(e.k) /\ Places(e.k, ":") = {} /\ NoBreak(e.v)
    /\ ~Contains(DecodeBody(response, error_message).msg,
                 CodeMarkOf(decoded_error.error_code))

(* C7, amended: the round trip holds for every returned error whose        *)
(* message before decoration does not already contain "\nErrorCode:<code>",*)
(* whose decoded code holds no line break, and whose additional_info keys  *)
(* and values hold no line break, the keys also no colon.                  *)
C7_RoundTripOfReadable == (Returned /\ Readable) => RoundTrips

\* a readable error with an entry has been read back
C7_Witness ==
    /\ Returned
    /\ Readable
    /\ decoded_error.error_code = <<"v">>
    /\ decoded_error.additional_info = <<[k |-> DetailTag, v |-> <<"v">>]>>
    /\ RoundTrips

---------------------------------------------------------------------------
(* Table names, as the documentation describes them *)

Alphanumeric(name) == \A i \in 1..Len(name) : name[i] \in Letters \cup Digits

\* 3 to 63 characters, letters and digits only, a letter first
StorageGrammar(name) ==
    /\ Len(name) >= 3
    /\ Len(name) <= 63
    /\ Alphanumeric(name)
    /\ name[1] \in Letters

(* C8: given a decoded error with code InvalidResourceName whose message   *)
(* contains "specified resource name contains invalid characters",         *)
(* _validate_tablename_error raises the storage-grammar failure for every  *)
(* table name of length 2 or holding a non-alphanumeric character, and     *)
(* raises nothing for every name matching ^[A-Za-z][A-Za-z0-9]{2,62}$.     *)
C8_InvalidCharactersSignature ==
    ( /\ op = "_validate_tablename_error"
      /\ pc # "called"
      /\ decoded_error.error_code = <<"InvalidResourceName">>
      /\ Contains(decoded_error.message,
                  <<"specified resource name contains invalid characters">>) )
    => /\ (Len(table_name) = 2 \/ ~Alphanumeric(table_name))
             => (pc = "raised" /\ raised = StorageNameError)
       /\ StorageGrammar(table_name) => (pc = "returned" /\ raised = "")

(* C9: given a decoded error with code BadRequest and message "The input   *)
(* name is invalid.", _validate_tablename_error raises the cosmos-grammar  *)
(* failure, a ValueError stating the length bound, for every table name of *)
(* 255 or more characters.                                                 *)
C9_LongNameRaisesCosmos ==
    ( /\ op = "_validate_tablename_error"
      /\ pc # "called"
      /\ decoded_error.error_code = <<"BadRequest">>
      /\ Contains(decoded_error.message, <<"The ", "input name is invalid", ".">>)
      /\ Len(table_name) >= 255 )
    => (pc = "raised" /\ raised = CosmosNameError)

(* C10: _validate_storage_tablename raises nothing if and only if the name *)
(* is 3 to 63 characters long, holds only ASCII letters and digits and     *)
(* starts with a letter; every other name raises ValueError.               *)
C10_StorageAcceptsExactlyGrammar ==
    (op = "_validate_storage_tablename" /\ pc # "called")
    => /\ (pc = "returned") <=> StorageGrammar(table_name)
       /\ (pc = "raised") => raised = StorageNameError

---------------------------------------------------------------------------
\* 1 to 254 characters, none of / \ # ?, no space last
CosmosGrammar(name) ==
    /\ Len(name) >= 1
    /\ Len(name) <= 254
    /\ \A i \in 1..Len(name) : name[i] \notin CosmosForbidden
    /\ name[Len(name)] # " "

(* C11: _validate_cosmos_tablename raises nothing if and only if the name  *)
(* is 1 to 254 characters long, holds none of / \ # ? and does not end     *)
(* with a space; every other name, the empty name and every name of 255 or *)
(* more characters included, raises ValueError.                            *)
C11_CosmosAcceptsExactlyGrammar ==
    (op = "_validate_cosmos_tablename" /\ pc # "called")
    => /\ (pc = "returned") <=> CosmosGrammar(table_name)
       /\ (pc = "raised") => raised = CosmosNameError

---------------------------------------------------------------------------
(* Properties of _process_table_error *)

Surfaced == op = "_process_table_error" /\ pc = "raised"

\* the decoded error has the code Unauthorized and a message holding the
\* authorization-token or the MAC-signature sentence
UnauthorizedSignature ==
    /\ decoded_error.error_code = <<"Unauthorized">>
    /\ \/ Contains(decoded_error.message,
                   <<"The ", "input authorization token can't serve the request", ".">>)
       \/ Contains(decoded_error.message,
                   <<"The ", "MAC signature found in the HTTP request">>)

(* C12, as stated: when the decoded error has the code Unauthorized and    *)
(* its message holds the authorization-token or the MAC-signature          *)
(* sentence, _process_table_error given a table name that fails the cosmos *)
(* grammar surfaces the naming validation failure, and given a name that   *)
(* satisfies it surfaces an error classified as an authentication failure  *)
(* (ClientAuthenticationError).                                            *)
C12_UnauthorizedIsAuthenticationFailure ==
    (Surfaced /\ UnauthorizedSignature /\ Truthy(table_name))
    => IF CosmosGrammar(table_name)
       THEN raised = "ClientAuthenticationError"
       ELSE raised = CosmosNameError

\* the cosmos grammar, or a name of it followed by one line break
CosmosGrammarOrLineBreak(name) ==
    \/ CosmosGrammar(name)
    \/ /\ Len(name) >= 2
       /\ Last(name) = "\n"
       /\ CosmosGrammar(SubSeq(name, 1, Len(name) - 1))

(* C12, amended: under the same signature, _process_table_error given a    *)
(* non-empty table name that neither satisfies the cosmos grammar nor is a *)
(* name of the grammar followed by one line break surfaces the cosmos      *)
(* ValueError; given any other name, an empty name or none, it surfaces    *)
(* the decoded error, which is a plain HttpResponseError carrying the code *)
(* Unauthorized, not a ClientAuthenticationError.                          *)
C12_UnauthorizedSurfaces ==
    (Surfaced /\ UnauthorizedSignature)
    => IF Truthy(table_name) /\ ~CosmosGrammarOrLineBreak(table_name)
       THEN raised = CosmosNameError
       ELSE /\ raised = "HttpResponseError"
            /\ decoded_error.type = "HttpResponseError"
            /\ decoded_error.error_code = <<"Unauthorized">>

\* the MAC-signature error has surfaced for a name of the grammar
C12_Witness ==
    /\ Surfaced
    /\ UnauthorizedSignature
    /\ Contains(decoded_error.message, <<"The ", "MAC signature found in the HTTP request">>)
    /\ table_name = <<"a", "7", "Z">>
    /\ raised = "HttpResponseError"

---------------------------------------------------------------------------
(* TableTransactionError *)

Built == op = "TableTransactionError" /\ pc # "called"

\* built without an explicit index
Extracted == Built /\ ~index_kwarg.given

AllDigits(text) == text # <<>> /\ \A i \in 1..Len(text) : IsDigit(text[i])

\* a decimal integer: digits, or a minus sign and digits
DecimalInteger(text) ==
    \/ AllDigits(text)
    \/ text # <<>> /\ Head(text) = "-" /\ AllDigits(Tail(text))

RECURSIVE Magnitude(_)
Magnitude(digits) ==
    IF digits = <<>> THEN 0
    ELSE 10 * Magnitude(SubSeq(digits, 1, Len(digits) - 1)) + DigitValue(Last(digits))

DecimalValue(text) ==
    IF Head(text) = "-" THEN 0 - Magnitude(Tail(text)) ELSE Magnitude(text)

RECURSIVE DropSpaces(_)
DropSpaces(text) ==
    IF text # <<>> /\ Head(text) = " " THEN DropSpaces(Tail(text)) ELSE text

\* the message does not start, after white space and a sign, with a digit
NoLeadingInteger(message) ==
    LET s == DropSpaces(message)
        unsigned == IF s # <<>> /\ Head(s) \in {"+", "-"} THEN Tail(s) ELSE s
    IN  unsigned = <<>> \/ ~IsDigit(Head(unsigned))

(* C13: a TableTransactionError built without an explicit index whose      *)
(* message has the form "<N>:<text>", N a decimal integer, has index N     *)
(* ("3:x" gives 3); every message that has no leading integer gives        *)
(* index 0.                                                                *)
C13_IndexIsLeadingInteger ==
    Extracted
    => /\ \A k \in 1..Len(error_message) :
            (error_message[k] = ":" /\ DecimalInteger(SubSeq(error_message, 1, k - 1)))
            => index = DecimalValue(SubSeq(error_message, 1, k - 1))
       /\ NoLeadingInteger(error_message) => index = 0

\* "3:x" has given index 3
C13_Witness ==
    /\ Extracted
    /\ error_message = <<"3", ":", "x">>
    /\ index = 3

(* C14: the index of every TableTransactionError whose index was extracted *)
(* from its message is a non-negative integer, whatever the message text.  *)
C14_IndexNonNegative == Extracted => (index \in Int /\ index >= 0)

NoColon(message) == \A i \in 1..Len(message) : message[i] # ":"

(* C20, as stated: the index extraction of TableTransactionError never     *)
(* raises, and for every message that holds no colon the extracted index   *)
(* is 0.                                                                   *)
C20_NoColonGivesZero ==
    /\ Built => pc = "returned"
    /\ (Extracted /\ NoColon(error_message)) => index = 0

(* C20, amended: the index extraction never raises; for a message that     *)
(* holds no colon the extracted index is the integer the whole message     *)
(* reads as when int() accepts it, and 0 otherwise, as for every message   *)
(* that holds a character int() does not read.                             *)
C20_NoColonGivesZeroUnlessInteger ==
    /\ Built => pc = "returned"
    /\ (Extracted /\ NoColon(error_message))
          => /\ index = IF int(error_message).exc = ""
                        THEN int(error_message).value
                        ELSE 0
             /\ (\E i \in 1..Len(error_message) : error_message[i] = "x") => index = 0

\* a message without a colon that is not an integer has given index 0
C20_Witness ==
    /\ Extracted
    /\ pc = "returned"
    /\ error_message = <<"3", "x">>
    /\ index = 0

---------------------------------------------------------------------------
(* The table of signatures, as the documentation lists it: a decoded error *)
(* matches an entry when its code equals the entry's and its message holds *)
(* one of the entry's fragments.                                           *)

StorageEntries ==
    { [code |-> <<"InvalidResourceName">>,
       fragments |-> {<<"specified resource name contains invalid characters">>}],
      [code |-> <<"InvalidResourceName">>,
       fragments |-> {<<"specifed resource name contains invalid characters">>}],
      [code |-> <<"OutOfRangeInput">>,
       fragments |->
          {<<"specified resource name length is not within the permissible limits">>}] }

CosmosEntries ==
    { [code |-> <<"InternalServerError">>,
       fragments |-> {<<"resource name presented contains invalid character">>,
                      <<"resource name can't end with space">>}],
      [code |-> <<"BadRequest">>, fragments |-> {<<"input name is invalid">>}],
      [code |-> <<"InvalidInput">>,
       fragments |-> {<<"Request url is invalid">>,
                      <<"One of the input values is invalid">>,
                      <<"table name contains an invalid character">>,
                      <<"Table name cannot end with a space">>}],
      [code |-> <<"Unauthorized">>,
       fragments |-> {<<"input authorization token can't serve the request">>,
                      <<"MAC signature found in the HTTP request">>}] }

Matches(error, entries) ==
    \E e \in entries :
        /\ error.error_code = e.code
        /\ \E f \in e.fragments : Contains(error.message, f)

NamingFailures == {StorageNameError, CosmosNameError}

\* the error surfaced is the error decoded from the response
SurfacedDecoded ==
    /\ Surfaced
    /\ decoded_error # NoError
    /\ raised = decoded_error.type
    /\ decoded_error = _decode_error(response, error_message, NoErrorType).error
    /\ decoded_error.error_code = WireCode

C18_ValidNameSurfacesDecoded ==
    ( /\ Surfaced
      /\ Truthy(table_name)
      /\ \/ Matches(decoded_error, StorageEntries) /\ StorageGrammar(table_name)
         \/ Matches(decoded_error, CosmosEntries) /\ CosmosGrammar(table_name) )
    => (SurfacedDecoded /\ raised \notin NamingFailures)

\* the BadRequest error has surfaced for a name the cosmos grammar allows
\* and the storage grammar does not
C18_Witness ==
    /\ SurfacedDecoded
    /\ decoded_error.error_code = <<"BadRequest">>
    /\ Matches(decoded_error, CosmosEntries)
    /\ table_name = <<"a", "_", "a">>
    /\ raised = "HttpResponseError"

(* C19: when _process_table_error is called without a table name, no name  *)
(* is validated: for every decoded error, one that matches a signature of  *)
(* the table included, the error surfaced is the classified error, never a *)
(* naming validation failure.                                              *)
C19_NoNameNoValidation ==
    (Surfaced /\ table_name = None)
    => /\ raised \notin NamingFailures
       /\ decoded_error # NoError => SurfacedDecoded

\* an error matching a storage signature has surfaced as decoded
C19_Witness ==
    /\ SurfacedDecoded
    /\ table_name = None
    /\ Matches(decoded_error, StorageEntries)
    /\ raised = "HttpResponseError"

---------------------------------------------------------------------------
Validated == op = "_validate_tablename_error" /\ pc # "called"

\* what checking the table name against a grammar leaves behind
CheckedStorage == raised = _validate_storage_tablename(table_name)
CheckedCosmos == raised = _validate_cosmos_tablename(table_name)
CheckedNothing == pc = "returned" /\ raised = ""

(* C17, as stated: _validate_tablename_error checks the table name against *)
(* the storage grammar exactly when the decoded error matches one of the   *)
(* three storage entries, against the cosmos grammar exactly when it       *)
(* matches one of the four cosmos entries, and checks nothing otherwise;   *)
(* an entry is matched when the code equals the entry's and the message    *)
(* holds the entry's fragment as the documentation lists it ("specified    *)
(* resource name contains invalid characters", "input name is invalid",    *)
(* and so on).                                                             *)
C17_SignatureTable ==
    Validated
    => IF Matches(decoded_error, StorageEntries) THEN CheckedStorage
       ELSE IF Matches(decoded_error, CosmosEntries) THEN CheckedCosmos
       ELSE CheckedNothing

\* the table with the literals of the code
StorageLiterals ==
    { [code |-> <<"InvalidResourceName">>,
       fragments |->
          {<<"The ", "specified resource name contains invalid characters">>}],
      [code |-> <<"InvalidResourceName">>,
       fragments |->
          {<<"The ", "specifed resource name contains invalid characters">>}],
      [code |-> <<"OutOfRangeInput">>,
       fragments |->
          {<<"The ",
             "specified resource name length is not within the permissible limits">>}] }

CosmosLiterals ==
    { [code |-> <<"InternalServerError">>,
       fragments |-> {<<"The ", "resource name presented contains invalid character">>,
                      <<"The ", "resource name can't end with space">>}],
      [code |-> <<"BadRequest">>,
       fragments |-> {<<"The ", "input name is invalid", ".">>}],
      [code |-> <<"InvalidInput">>,
       fragments |-> {<<"Request url is invalid", ".">>,
                      <<"One of the input values is invalid", ".">>,
                      <<"The ", "table name contains an invalid character">>,
                      <<"Table name cannot end with a space", ".">>}],
      [code |-> <<"Unauthorized">>,
       fragments |->
          {<<"The ", "input authorization token can't serve the request", ".">>,
           <<"The ", "MAC signature found in the HTTP request">>}] }

(* C17, amended: the same, an entry being matched when the code equals the *)
(* entry's and the message holds the entry's literal with its leading      *)
(* "The " and its closing full stop where the code has them ("The          *)
(* specified resource name contains invalid characters", "The input name   *)
(* is invalid.", "Request url is invalid.", and so on); a message that     *)
(* holds only the shorter fragment matches no entry.                       *)
C17_SignatureTableOfLiterals ==
    Validated
    => IF Matches(decoded_error, StorageLiterals) THEN CheckedStorage
       ELSE IF Matches(decoded_error, CosmosLiterals) THEN CheckedCosmos
       ELSE CheckedNothing

\* the entry with the misspelt literal has had a name checked against the
\* storage grammar
C17_Witness ==
    /\ Validated
    /\ decoded_error.error_code = <<"InvalidResourceName">>
    /\ Contains(decoded_error.message,
                <<"The ", "specifed resource name contains invalid characters">>)
    /\ table_name = <<"a", "_", "a">>
    /\ raised = StorageNameError

---------------------------------------------------------------------------
\* the call has ended as it ends when it is the only call
AsAlone(inv) ==
    LET decoded == _decode_error(inv.resp, inv.message, NoErrorType)
        processed == _process_table_error(inv.resp, inv.message, inv.name, inv.exc_info)
    IN  CASE inv.op = "_decode_error" /\ inv.pc = "returned" ->
                decoded.exc = "" /\ inv.error = decoded.error
          [] inv.op = "_decode_error" /\ inv.pc = "raised" ->
                decoded.exc = inv.raised
          [] inv.op = "_process_table_error" /\ inv.pc = "raised" ->
                /\ inv.raised = processed.raised
                /\ inv.error = processed.error
                /\ inv.context = processed.context
          [] OTHER -> TRUE

(* C16: when calls of _decode_error and _process_table_error run           *)
(* concurrently, each on its own response, then under every interleaving   *)
(* of their steps each call ends with the code, message, additional_info   *)
(* and kind (or the exception) it ends with when it runs alone.            *)
C16_NoInterference ==
    op = "concurrent" => \A t \in Threads : AsAlone(invocations[t])

\* two calls on documents with additional_data have both ended
C16_Witness ==
    /\ op = "concurrent"
    /\ invocations[1].op = "_decode_error"
    /\ invocations[1].pc = "returned"
    /\ invocations[1].error.additional_info # <<>>
    /\ invocations[2].op = "_process_table_error"
    /\ invocations[2].pc = "raised"
    /\ invocations[2].error.additional_info # <<>>

---------------------------------------------------------------------------
Decoded == op = "_decode_error" /\ pc # "called"

(* C21: the code _decode_error decodes is the x-ms-error-code header of    *)
(* the response unless the body holds a code, which then replaces it; when *)
(* the body cannot be parsed, _decode_error still returns an error, with   *)
(* the code of the header, an empty additional_info and a message that     *)
(* holds no text of the body: the message it was given, decorated.         *)
C21_HeaderSeedAndFallback ==
    /\ Returned => decoded_error.error_code = WireCode
    /\ (Decoded /\ response.body.kind = "undecodable")
          => /\ pc = "returned"
             /\ decoded_error.error_code = response.header
             /\ decoded_error.additional_info = <<>>
             /\ StartsWith(decoded_error.message, error_message \o ErrorCodeMark)

---------------------------------------------------------------------------
\* a name was supplied, a signature matches and the name fails its grammar
NameFailsMatchedGrammar ==
    /\ Truthy(table_name)
    /\ \/ /\ Matches(decoded_error, StorageLiterals)
          /\ _validate_storage_tablename(table_name) # ""
       \/ /\ Matches(decoded_error, CosmosLiterals)
          /\ _validate_cosmos_tablename(table_name) # ""

\* the three ways the call is said to end
EndsAsDocumented ==
    \/ raised = "storage_error" /\ decoded_error = NoError
    \/ raised \in NamingFailures /\ NameFailsMatchedGrammar
    \/ SurfacedDecoded /\ ~NameFailsMatchedGrammar

(* C22: _process_table_error never returns: for every storage_error and    *)
(* table name it ends by raising one error, which is storage_error itself  *)
(* (when decoding fails on a missing attribute; no name is then            *)
(* validated), else the naming ValueError (when a name is supplied, a      *)
(* signature matches and the name fails the grammar), else the decoded     *)
(* classified error.                                                       *)
C22_RaisesOneOfThree ==
    (op = "_process_table_error" /\ pc # "called")
    => (pc = "raised" /\ EndsAsDocumented)

---------------------------------------------------------------------------
(* C23: _process_table_error treats an empty table name like an absent     *)
(* one: it checks no grammar for it, so the call ends as the same call     *)
(* without a name ends, and never with a naming validation failure, even   *)
(* when the decoded error matches a signature and the empty name fails     *)
(* both grammars.                                                          *)
C23_EmptyNameIsAbsent ==
    (Surfaced /\ table_name = <<>>)
    => /\ raised \notin NamingFailures
       /\ LET absent == _process_table_error(response, error_message, None, handling)
          IN  raised = absent.raised /\ decoded_error = absent.error

\* an error matching a storage signature has surfaced as decoded for the
\* empty name, which both validators reject
C23_Witness ==
    /\ SurfacedDecoded
    /\ table_name = <<>>
    /\ Matches(decoded_error, StorageLiterals)
    /\ _validate_storage_tablename(table_name) = StorageNameError
    /\ _validate_cosmos_tablename(table_name) = CosmosNameError
    /\ raised = "HttpResponseError"

---------------------------------------------------------------------------
(* C24: a TableTransactionError built with an explicit index keyword has   *)
(* that value as its index whatever its message says; the index read from  *)
(* the message (0 when it holds none) is its index only when no index      *)
(* keyword is given.                                                       *)
C24_ExplicitIndexWins ==
    Built
    => IF index_kwarg.given
       THEN index = index_kwarg.value
       ELSE /\ index = _extract_index(error_message).index
            /\ NoLeadingInteger(error_message) => index = 0

\* index=7 has won over the 3 of the message
C24_Witness ==
    /\ Built
    /\ index_kwarg = [given |-> TRUE, value |-> 7]
    /\ error_message = <<"3", ":", "x">>
    /\ index = 7

---------------------------------------------------------------------------
Began == op \in {"begin_create_or_update", "begin_delete"} /\ pc # "called"

\* the service refused the initial request
InitialRefused ==
    pc = "raised"
    /\ raised \in {"ClientAuthenticationError", "ResourceNotFoundError",
                   "ResourceExistsError", "HttpResponseError"}

(* C25: begin_create_or_update and begin_delete send the initial request   *)
(* to the service exactly when no continuation_token is supplied, and for  *)
(* every value of continuation_token they return a poller (unless the      *)
(* service refuses the initial request): one built from the initial        *)
(* response when no token is supplied, one restored from the token, with   *)
(* no initial request sent, when a token is supplied.                      *)
C25_TokenDecidesInitialRequest ==
    Began
    => /\ (requests # <<>>) <=> (cont_token = None)
       /\ Len(requests) <= 1
       /\ (pc # "awaiting" /\ ~InitialRefused)
             => /\ pc = "returned"
                /\ IF cont_token = None
                   THEN /\ poller.kind = "AsyncLROPoller"
                        /\ poller.initial = "pipeline_response"
                   ELSE /\ poller.kind = "from_continuation_token"
                        /\ poller.token = cont_token
                        /\ requests = <<>>

============================================================================
